---------------------------- MODULE Spec2Model ----------------------------
(***************************************************************************)
(* A model of poster_downloader.py: the resolver (search_media), the image *)
(* selector (get_poster_url), the fetcher/writer (download_poster) and the *)
(* batch driver (download_batch), against a mocked metadata service.       *)
(*                                                                         *)
(* Python values are modelled as follows.  A dict is a function on its     *)
(* keys (a record), so dict.get is a test on DOMAIN.  A list is a          *)
(* sequence.  None is the empty tuple.  Text whose characters the code     *)
(* inspects (a display title, a console line, a file path) is a sequence   *)
(* of one-character strings; text the code only concatenates (a URL) is a  *)
(* string.  A raised exception is the field "raised" of a call's outcome.  *)
(***************************************************************************)
EXTENDS Integers, Sequences, FiniteSets, TLC

VARIABLES
    pc,       \* position of the process
    arg,      \* the inputs of the function under check (SpecSearch, SpecPoster, SpecSanitize)
    ret,      \* what it returned
    mode,     \* "batch" (download_batch) or "single" (download_poster from __main__)
    titles,   \* download_batch: the titles
    mtype,    \* the media_type argument
    idx,      \* download_batch: titles processed so far
    results,  \* download_batch: results = {"ok": [...], "fail": [...]}
    calls,    \* the download_poster calls that returned: title, returned path, file written
    dirs,     \* the file system: directories that exist
    files,    \* the file system: file path -> content
    cur,      \* the download_poster call in progress: its arguments and locals
    last      \* what the call in progress has done so far (requests, console, outcome)

vars == <<pc, arg, ret, mode, titles, mtype, idx, results, calls, dirs, files, cur, last>>

-----------------------------------------------------------------------------
(* Program constants *)

MaxPerType == 5
IMAGE_BASE == "https://image.tmdb.org/t/p/original"
OUTPUT_FOLDER == <<"posters">>

(* Bounds of the model *)

MaxShort == 2      \* short result lists: every popularity shape, popularity absent included
MaxPosters == 3    \* posters in an images response
MaxTitleLen == 3   \* characters of a display title given to the sanitizer
MaxTitles == 2     \* titles of a batch
MaxResults == 2    \* results of a search response in the end-to-end runs

-----------------------------------------------------------------------------
(* Python built-ins *)

None == <<>>

\* dict.get(k, default)
Get(d, k, default) == IF k \in DOMAIN d THEN d[k] ELSE default

\* d[k] = v
SetKey(d, k, v) == (k :> v) @@ d

\* s[:n]
Take(s, n) == SubSeq(s, 1, IF Len(s) < n THEN Len(s) ELSE n)

\* a or b
PyOr(a, b) == IF a # None THEN a ELSE b

\* A strict comparison keeps the earliest maximum, as max() does.
PyMaxIdxLast(keys) ==
    LET F[i \in 1..Len(keys)] ==
            IF i = 1 THEN 1
            ELSE LET best == F[i - 1] IN IF keys[i] >= keys[best] THEN i ELSE best
    IN  F[Len(keys)]

\* max(seq, key=...): the index of the item max returns, given the items' keys.
PyMaxIdx(keys) ==
    LET F[i \in 1..Len(keys)] ==
            IF i = 1 THEN 1
            ELSE LET best == F[i - 1] IN IF keys[i] > keys[best] THEN i ELSE best
    IN  F[Len(keys)]

Digits == {"0", "1", "2", "9"}
DigitVal(c) == CASE c = "0" -> 0 [] c = "1" -> 1 [] c = "2" -> 2 [] c = "9" -> 9

\* str.strip()
RECURSIVE LStrip(_)
LStrip(s) == IF s # <<>> /\ Head(s) = " " THEN LStrip(Tail(s)) ELSE s
RECURSIVE RStrip(_)
RStrip(s) == IF s # <<>> /\ s[Len(s)] = " " THEN RStrip(SubSeq(s, 1, Len(s) - 1)) ELSE s
Strip(s) == RStrip(LStrip(s))

\* int(s) on a stripped line: an optional sign, then digits; anything else raises ValueError.
Unsigned(s) == IF s # <<>> /\ Head(s) \in {"+", "-"} THEN Tail(s) ELSE s
IsIntLiteral(s) == Unsigned(s) # <<>> /\ \A i \in 1..Len(Unsigned(s)) : Unsigned(s)[i] \in Digits
RECURSIVE DigitsVal(_)
DigitsVal(s) == IF s = <<>> THEN 0 ELSE 10 * DigitsVal(SubSeq(s, 1, Len(s) - 1)) + DigitVal(s[Len(s)])
ParseInt(s) == IF Head(s) = "-" THEN 0 - DigitsVal(Unsigned(s)) ELSE DigitsVal(Unsigned(s))

\* c.isalnum()
AlnumChars == {"A", "b", "7"}
IsAlnum(c) == c \in AlnumChars

-----------------------------------------------------------------------------
(* The HTTP client.  A response is                                          *)
(*   [error: a connection error, status, isJson: the body parses as JSON,  *)
(*    json: the parsed body, content: the raw body].                       *)

Raised(name) == [raised |-> name, json |-> None]

\* requests.get(...).json(): no status check, so the body of any status is parsed.
RequestJson(resp) ==
    IF resp.error THEN Raised("ConnectionError")
    ELSE IF ~resp.isJson THEN Raised("JSONDecodeError")
    ELSE [raised |-> "none", json |-> resp.json]

-----------------------------------------------------------------------------
(* search_media *)

\* The outcome of a search_media call.
SearchOutcome(value, raised, reqs, prompted, warned) ==
    [ret |-> value, raised |-> raised, reqs |-> reqs, prompted |-> prompted, warned |-> warned]

Popularity(x) == Get(x, "popularity", 0)

\* The first five results of one response, each tagged with its type.
Collect(json, mt) ==
    LET rs == Get(json, "results", None)
    IN  IF rs # None
        THEN [i \in 1..Len(Take(rs, MaxPerType)) |-> SetKey(rs[i], "media_type", mt)]
        ELSE <<>>

\* max(all_results, key=lambda x: x.get("popularity", 0))
MaxPopular(all_results) ==
    all_results[PyMaxIdx([i \in 1..Len(all_results) |-> Popularity(all_results[i])])]

\* The range test without its lower bound: a negative index counts from the end of the list.
AskNoLowerBound(all_results, choice) ==
    LET c == Strip(choice)
        n == Len(all_results)
    IN  IF c = <<>>
        THEN [ret |-> all_results[1], prompted |-> TRUE, warned |-> FALSE]
        ELSE IF IsIntLiteral(c)
        THEN LET i == ParseInt(c) - 1
             IN  IF i < n /\ i >= 0 - n
                 THEN [ret |-> all_results[IF i >= 0 THEN i + 1 ELSE n + i + 1],
                       prompted |-> TRUE, warned |-> FALSE]
                 ELSE [ret |-> all_results[1], prompted |-> TRUE, warned |-> TRUE]
        ELSE [ret |-> all_results[1], prompted |-> TRUE, warned |-> TRUE]

\* Lines 53-82: list the candidates, read one console line, pick.
Ask(all_results, choice) ==
    LET c == Strip(choice)
    IN  IF c = <<>>
        THEN [ret |-> all_results[1], prompted |-> TRUE, warned |-> FALSE]
        ELSE IF IsIntLiteral(c)
        THEN LET i == ParseInt(c) - 1
             IN  IF 0 <= i /\ i < Len(all_results)
                 THEN [ret |-> all_results[i + 1], prompted |-> TRUE, warned |-> FALSE]
                 ELSE [ret |-> all_results[1], prompted |-> TRUE, warned |-> TRUE]
        ELSE [ret |-> all_results[1], prompted |-> TRUE, warned |-> TRUE]

\* The selection without the single-candidate shortcut of lines 49-50.
SelectNoShortcut(all_results, interactive, choice) ==
    IF all_results = <<>> THEN [ret |-> None, prompted |-> FALSE, warned |-> FALSE]
    ELSE IF interactive THEN Ask(all_results, choice)
    ELSE [ret |-> MaxPopular(all_results), prompted |-> FALSE, warned |-> FALSE]

\* Lines 46-84: pick one of the combined candidates; choice is the line the console delivers.
Select(all_results, interactive, choice) ==
    IF all_results = <<>> THEN [ret |-> None, prompted |-> FALSE, warned |-> FALSE]
    ELSE IF Len(all_results) = 1
    THEN [ret |-> all_results[1], prompted |-> FALSE, warned |-> FALSE]
    ELSE IF interactive THEN Ask(all_results, choice)
    ELSE [ret |-> MaxPopular(all_results), prompted |-> FALSE, warned |-> FALSE]

\* Lines 31-84: media_type == "auto".
SearchAuto(movieResp, tvResp, interactive, choice) ==
    LET m == RequestJson(movieResp)
    IN  IF m.raised # "none"
        THEN SearchOutcome(None, m.raised, <<"search/movie">>, FALSE, FALSE)
        ELSE LET t == RequestJson(tvResp)
             IN  IF t.raised # "none"
                 THEN SearchOutcome(None, t.raised, <<"search/movie", "search/tv">>, FALSE, FALSE)
                 ELSE LET all_results == Collect(m.json, "movie") \o Collect(t.json, "tv")
                          s == Select(all_results, interactive, choice)
                      IN  SearchOutcome(s.ret, "none", <<"search/movie", "search/tv">>,
                                        s.prompted, s.warned)

\* The first result taken without looking whether there is one.
SearchExplicitNoCheck(media_type, resp) ==
    LET endpoint == IF media_type = "movie" THEN "search/movie" ELSE "search/tv"
        r == RequestJson(resp)
    IN  IF r.raised # "none" THEN SearchOutcome(None, r.raised, <<endpoint>>, FALSE, FALSE)
        ELSE IF "results" \notin DOMAIN r.json
        THEN SearchOutcome(None, "KeyError", <<endpoint>>, FALSE, FALSE)
        ELSE IF r.json.results = <<>>
        THEN SearchOutcome(None, "IndexError", <<endpoint>>, FALSE, FALSE)
        ELSE SearchOutcome(SetKey(r.json.results[1], "media_type", media_type), "none",
                           <<endpoint>>, FALSE, FALSE)

\* Lines 86-95: an explicit media_type.
SearchExplicit(media_type, resp) ==
    LET endpoint == IF media_type = "movie" THEN "search/movie" ELSE "search/tv"
        r == RequestJson(resp)
        rs == Get(r.json, "results", None)
    IN  IF r.raised # "none" THEN SearchOutcome(None, r.raised, <<endpoint>>, FALSE, FALSE)
        ELSE IF rs # None
        THEN SearchOutcome(SetKey(rs[1], "media_type", media_type), "none", <<endpoint>>, FALSE, FALSE)
        ELSE SearchOutcome(None, "none", <<endpoint>>, FALSE, FALSE)

\* search_media(title, media_type, interactive), given the responses of the two
\* search endpoints and the line the console would deliver.
SearchMedia(media_type, interactive, movieResp, tvResp, choice) ==
    IF media_type = "auto" THEN SearchAuto(movieResp, tvResp, interactive, choice)
    ELSE SearchExplicit(media_type, IF media_type = "movie" THEN movieResp ELSE tvResp)

-----------------------------------------------------------------------------
(* get_poster_url *)

Width(p) == Get(p, "width", 0)

\* No language filter: every poster counts as preferred.
EnPostersUnfiltered(posters) == posters

\* Line 109: the posters tagged "en".
EnPosters(posters) == SelectSeq(posters, LAMBDA p : p.iso_639_1 = "en")

\* The first poster instead of the widest.
WidestTakesFirst(ps) == ps[1]

\* max(ps, key=lambda p: p.get("width", 0))
Widest(ps) == ps[PyMaxIdx([i \in 1..Len(ps) |-> Width(ps[i])])]

\* get_poster_url(media_id, media_type), given the response of the images endpoint.
GetPosterUrl(media_id, media_type, resp) ==
    LET endpoint == IF media_type = "movie" THEN "movie/images" ELSE "tv/images"
        images == RequestJson(resp)
        posters == Get(images.json, "posters", <<>>)
        en_posters == EnPosters(posters)
    IN  IF images.raised # "none" THEN [ret |-> None, raised |-> images.raised, reqs |-> <<endpoint>>]
        ELSE IF posters = <<>> THEN [ret |-> None, raised |-> "none", reqs |-> <<endpoint>>]
        ELSE IF en_posters # <<>>
        THEN [ret |-> <<IMAGE_BASE \o Widest(en_posters).file_path>>, raised |-> "none",
              reqs |-> <<endpoint>>]
        ELSE [ret |-> <<IMAGE_BASE \o Widest(posters).file_path>>, raised |-> "none",
              reqs |-> <<endpoint>>]

-----------------------------------------------------------------------------
(* The file name of download_poster *)

KeptPunctuation == {" ", "-", "_"}

\* Only the first offending character is removed.
SafeTitleDropsFirstOnly(media_title) ==
    LET bad == { i \in 1..Len(media_title) :
                    ~(IsAlnum(media_title[i]) \/ media_title[i] \in KeptPunctuation) }
        first == CHOOSE i \in bad : \A j \in bad : i <= j
    IN  IF bad = {} THEN media_title
        ELSE SubSeq(media_title, 1, first - 1) \o SubSeq(media_title, first + 1, Len(media_title))

\* Line 137: "".join(c if c.isalnum() or c in " -_" else "" for c in media_title)
SafeTitle(media_title) ==
    SelectSeq(media_title, LAMBDA c : IsAlnum(c) \/ c \in KeptPunctuation)

\* Line 138: os.path.join(output_folder, f"{safe_title}.jpg")
FilePath(output_folder, safe_title) == output_folder \o <<"/">> \o safe_title \o <<".jpg">>

\* Line 129: media.get("title") or media.get("name")
MediaTitle(media) == PyOr(Get(media, "title", None), Get(media, "name", None))

\* The file opened for appending: what is there stays, the new bytes follow.
WriteFileAppends(fs, filepath, content) ==
    [f \in DOMAIN fs \cup {filepath} |->
        IF f = filepath THEN (IF f \in DOMAIN fs THEN fs[f] \o content ELSE content) ELSE fs[f]]

\* Lines 139-140: open(filepath, "wb") and write: the file is created or replaced.
WriteFile(fs, filepath, content) ==
    [f \in DOMAIN fs \cup {filepath} |-> IF f = filepath THEN content ELSE fs[f]]

-----------------------------------------------------------------------------
(* download_batch *)

\* Every title filed as a success.
RecordAlwaysOk(res, title, path) == [res EXCEPT !.ok = Append(@, title)]

\* Lines 152-155: file the title under "ok" when download_poster returned a path,
\* under "fail" otherwise.
Record(res, title, path) ==
    IF path # None THEN [res EXCEPT !.ok = Append(@, title)]
    ELSE [res EXCEPT !.fail = Append(@, title)]

-----------------------------------------------------------------------------
(* The mocked metadata service *)

\* Display titles of the catalogue, by type and identifier: some hold characters the
\* sanitizer drops, two differ only in such characters, one holds nothing else.
TitleOf(mt, id) ==
    IF mt = "movie"
    THEN CASE id = 1 -> <<"A", ":", "b">>
           [] id = 2 -> <<"A", "b">>
           [] OTHER  -> <<"7", " ", "-", "_">>
    ELSE CASE id = 1 -> <<"b", "7">>
           [] id = 2 -> <<"!", "?">>
           [] OTHER  -> <<"A">>

\* A search result: movies carry "title", shows carry "name"; "popularity" may be absent.
Candidate(mt, id, hasPop, pop) ==
    LET base == IF mt = "movie" THEN [id |-> id, title |-> TitleOf(mt, id)]
                ELSE [id |-> id, name |-> TitleOf(mt, id)]
    IN  IF hasPop THEN SetKey(base, "popularity", pop) ELSE base

Pops == {1, 2}

\* Result lists of n entries; the k-th result of a type has identifier k, and a
\* popularity of 0 in f stands for a result without the "popularity" key.
ListsOfLen(mt, n, pops) ==
    { [i \in 1..n |-> Candidate(mt, i, f[i] # 0, f[i])] : f \in [1..n -> pops] }

\* Short lists in every popularity shape, the key absent included.
ShortLists(mt) == UNION { ListsOfLen(mt, n, Pops \cup {0}) : n \in 0..MaxShort }

\* Long lists, up to one past the cap of five, with every popularity present.
LongLists(mt) == UNION { ListsOfLen(mt, n, Pops) : n \in (MaxShort + 1)..(MaxPerType + 1) }

\* Long lists of equally popular results.
FlatLists(mt) == UNION { ListsOfLen(mt, n, {1}) : n \in (MaxShort + 1)..(MaxPerType + 1) }

OkJson(json) == [error |-> FALSE, status |-> 200, isJson |-> TRUE, json |-> json, content |-> "json"]

\* What a request can end in besides success: a connection error, a non-success
\* status with the service's JSON error object, a non-success status with a body
\* that is not JSON.
ConnError == [error |-> TRUE, status |-> 0, isJson |-> FALSE, json |-> None, content |-> ""]
ErrorJson == [error |-> FALSE, status |-> 401, isJson |-> TRUE,
              json |-> [success |-> FALSE, status_code |-> 7], content |-> "json"]
ErrorText == [error |-> FALSE, status |-> 502, isJson |-> FALSE, json |-> None, content |-> "html"]
FailedResponses == {ConnError, ErrorJson, ErrorText}

SearchOk(mt) == { OkJson([results |-> rs]) : rs \in ShortLists(mt) \cup LongLists(mt) }
SearchOkFlat(mt) == { OkJson([results |-> rs]) : rs \in ShortLists(mt) \cup FlatLists(mt) }
NoResults == OkJson([results |-> <<>>])

\* The results a response holds (none when the request failed).
ResultsIn(resp) ==
    IF ~resp.error /\ resp.isJson /\ "results" \in DOMAIN resp.json THEN resp.json.results ELSE <<>>

\* Lines the console can deliver.
Choices ==
    { <<>>, <<" ">>, <<"1">>, <<"2">>, <<" ", "2", " ">>, <<"+", "2">>, <<"0">>, <<"-", "1">>,
      <<"9">>, <<"1", "2">>, <<"a">>, <<"2", "a">>, <<"1", " ", "2">>, <<"-">> }

-----------------------------------------------------------------------------
(* SpecSearch: search_media on every input of the bounded sets *)

\* The inputs of search_media: in batch mode every popularity shape of both
\* responses, with a line waiting on the console that would pick the second
\* candidate if it were read; in interactive mode every console line; every way a
\* request can fail; both explicit types.
SearchArgs(media_type) ==
    IF media_type = "auto"
    THEN [media_type : {"auto"}, interactive : {FALSE}, movieResp : SearchOk("movie"),
          tvResp : SearchOk("tv"), choice : {<<"2">>}]
         \cup [media_type : {"auto"}, interactive : {TRUE}, movieResp : SearchOkFlat("movie"),
               tvResp : SearchOkFlat("tv"), choice : Choices]
         \cup [media_type : {"auto"}, interactive : BOOLEAN,
               movieResp : FailedResponses \cup {NoResults},
               tvResp : FailedResponses \cup {NoResults}, choice : {<<"2">>}]
    ELSE IF media_type = "movie"
    THEN [media_type : {"movie"}, interactive : BOOLEAN,
          movieResp : SearchOk("movie") \cup FailedResponses, tvResp : {NoResults},
          choice : {<<"2">>}]
    ELSE [media_type : {"tv"}, interactive : BOOLEAN,
          movieResp : {NoResults}, tvResp : SearchOk("tv") \cup FailedResponses,
          choice : {<<"2">>}]

MediaTypes == {"auto", "movie", "tv"}

Idle ==
    /\ mode = "none" /\ titles = <<>> /\ mtype = "auto" /\ idx = 0
    /\ results = [ok |-> <<>>, fail |-> <<>>] /\ calls = <<>>
    /\ dirs = {} /\ files = <<>> /\ cur = None /\ last = None

InitSearch ==
    /\ pc = "search_call"
    /\ \E media_type \in MediaTypes : arg \in SearchArgs(media_type)
    /\ ret = None
    /\ Idle

CallSearchMedia ==
    /\ pc = "search_call"
    /\ ret' = SearchMedia(arg.media_type, arg.interactive, arg.movieResp, arg.tvResp, arg.choice)
    /\ pc' = "search_ret"
    /\ UNCHANGED <<arg, mode, titles, mtype, idx, results, calls, dirs, files, cur, last>>

SpecSearch == InitSearch /\ [][CallSearchMedia]_vars

-----------------------------------------------------------------------------
(* SpecPoster: get_poster_url on every images response of the bounded sets *)

Languages == {"en", "es", "null"}

\* The k-th poster of a media; a width of 0 stands for a poster without "width".
Poster(media_type, media_id, k, lang, w) ==
    LET base == [file_path |-> "/" \o media_type \o ToString(media_id) \o "p" \o ToString(k) \o ".jpg",
                 iso_639_1 |-> lang]
    IN  IF w # 0 THEN SetKey(base, "width", w) ELSE base

\* The poster lists of up to maxLen posters, each of one of the given kinds
\* (language, width).
PosterLists(media_type, media_id, maxLen, kinds) ==
    UNION { { [k \in 1..n |-> Poster(media_type, media_id, k, f[k][1], f[k][2])] :
                f \in [1..n -> kinds] } : n \in 0..maxLen }

ImagesOk(media_type, media_id, maxLen, kinds) ==
    { OkJson([posters |-> ps]) : ps \in PosterLists(media_type, media_id, maxLen, kinds) }

PosterArgs(media_type, media_id) ==
    [media_id : {media_id}, media_type : {media_type},
     resp : ImagesOk(media_type, media_id, MaxPosters, Languages \X (0..2)) \cup FailedResponses]

InitPoster ==
    /\ pc = "poster_call"
    /\ \E media_type \in {"movie", "tv"}, media_id \in 1..2 : arg \in PosterArgs(media_type, media_id)
    /\ ret = None
    /\ Idle

CallGetPosterUrl ==
    /\ pc = "poster_call"
    /\ ret' = GetPosterUrl(arg.media_id, arg.media_type, arg.resp)
    /\ pc' = "poster_ret"
    /\ UNCHANGED <<arg, mode, titles, mtype, idx, results, calls, dirs, files, cur, last>>

SpecPoster == InitPoster /\ [][CallGetPosterUrl]_vars

-----------------------------------------------------------------------------
(* SpecSanitize: the file name of every display title of the bounded set,       *)
(* and the file name of that file name                                          *)

TitleChars == AlnumChars \cup KeptPunctuation \cup {":", "!", "/", "."}

TitlesUpTo(n) == UNION { [1..k -> TitleChars] : k \in 0..n }

InitSanitize ==
    /\ pc = "sanitize"
    /\ arg \in TitlesUpTo(MaxTitleLen)
    /\ ret = None
    /\ Idle

Sanitize ==
    /\ pc = "sanitize"
    /\ ret' = [safe_title |-> SafeTitle(arg), filepath |-> FilePath(OUTPUT_FOLDER, SafeTitle(arg))]
    /\ pc' = "sanitize_again"
    /\ UNCHANGED <<arg, mode, titles, mtype, idx, results, calls, dirs, files, cur, last>>

SanitizeAgain ==
    /\ pc = "sanitize_again"
    /\ ret' = [safe_title |-> ret.safe_title, filepath |-> ret.filepath,
               again |-> SafeTitle(ret.safe_title)]
    /\ pc' = "sanitized"
    /\ UNCHANGED <<arg, mode, titles, mtype, idx, results, calls, dirs, files, cur, last>>

SpecSanitize == InitSanitize /\ [][Sanitize \/ SanitizeAgain]_vars

-----------------------------------------------------------------------------
(* Spec: the program end to end.  download_batch over a list of titles, or one    *)
(* interactive download_poster, against a service that answers every request in   *)
(* any of the ways a request can end.                                             *)

\* The titles of a batch: the first n lines of a file in which a title comes twice.
TitleFile == <<"Dune", "Heat", "Dune", "Heat">>
Titles == { TitleFile[i] : i \in 1..Len(TitleFile) }

PipelineLists(mt) == UNION { ListsOfLen(mt, n, Pops) : n \in 0..MaxResults }
PipelineSearch(mt) == { OkJson([results |-> rs]) : rs \in PipelineLists(mt) } \cup FailedResponses
MovieSearches == PipelineSearch("movie")
TvSearches == PipelineSearch("tv")
\* End to end the images endpoint answers with no poster, with one poster, or fails.
ImagesOf ==
    [mt \in {"movie", "tv"}, id \in 1..MaxResults |->
        ImagesOk(mt, id, 1, {<<"en", 1>>}) \cup FailedResponses]
PipelineImages(media) == ImagesOf[media.media_type, media.id]

\* The image host: the picture, an error page under a non-success status, or no answer.
FetchOk(url) == [error |-> FALSE, status |-> 200, isJson |-> FALSE, json |-> None,
                 content |-> "jpeg of " \o url]
FetchMissing == [error |-> FALSE, status |-> 404, isJson |-> FALSE, json |-> None,
                 content |-> "error page"]
FetchResponses(url) == {FetchOk(url), FetchMissing, ConnError}

OldFile == FilePath(OUTPUT_FOLDER, <<"A", "b">>)

\* The trace of a download_poster call that has just begun.
Fresh(title, interactive) ==
    [title |-> title, interactive |-> interactive, before |-> files, received |-> <<>>,
     reqs |-> <<>>, zero_results |-> FALSE, searched |-> FALSE, prompted |-> FALSE, warned |-> FALSE,
     raised |-> "none", msg |-> "", returned |-> FALSE, path |-> None]

\* What the trace keeps of a response: whether the connection failed, and the status.
Seen(endpoint, resp) == [endpoint |-> endpoint, error |-> resp.error, status |-> resp.status]

Init ==
    /\ pc = "main"
    /\ arg = None /\ ret = None
    /\ mode = "none" /\ titles = <<>> /\ mtype = "auto" /\ idx = 0
    /\ results = [ok |-> <<>>, fail |-> <<>>] /\ calls = <<>>
    /\ \/ dirs = {} /\ files = <<>>
       \/ dirs = {OUTPUT_FOLDER} /\ files = (OldFile :> "old")
    /\ cur = None /\ last = None

\* Lines 145-149: download_batch(titles, media_type).
CallDownloadBatch ==
    /\ pc = "main"
    /\ \E ts \in { SubSeq(TitleFile, 1, n) : n \in 0..MaxTitles }, mt \in MediaTypes :
        /\ titles' = ts
        /\ mtype' = mt
    /\ mode' = "batch"
    /\ results' = [ok |-> <<>>, fail |-> <<>>]
    /\ pc' = "loop"
    /\ UNCHANGED <<arg, ret, idx, calls, dirs, files, cur, last>>

\* Line 191: download_poster(arg, interactive=True), and the function called with
\* an explicit media_type.
CallDownloadPoster ==
    /\ pc = "main"
    /\ \E t \in Titles, mt \in MediaTypes :
        /\ titles' = <<t>>
        /\ mtype' = mt
        /\ cur' = [title |-> t, interactive |-> TRUE, media |-> None, poster_url |-> None]
        /\ last' = Fresh(t, TRUE)
    /\ mode' = "single"
    /\ pc' = "search"
    /\ UNCHANGED <<arg, ret, idx, results, calls, dirs, files>>

\* Lines 150-151: the next title of the batch, download_poster(..., interactive=False).
BatchNext ==
    /\ pc = "loop"
    /\ idx < Len(titles)
    /\ cur' = [title |-> titles[idx + 1], interactive |-> FALSE, media |-> None, poster_url |-> None]
    /\ last' = Fresh(titles[idx + 1], FALSE)
    /\ pc' = "search"
    /\ UNCHANGED <<arg, ret, mode, titles, mtype, idx, results, calls, dirs, files>>

\* Lines 156-160: the loop is over, the tallies are printed.
BatchSummary ==
    /\ pc = "loop"
    /\ idx = Len(titles)
    /\ pc' = "done"
    /\ UNCHANGED <<arg, ret, mode, titles, mtype, idx, results, calls, dirs, files, cur, last>>

\* download_poster returns path to its caller: download_batch files the title and
\* goes on with the loop (lines 152-155); __main__ ends.
Return(path, written, trace) ==
    /\ last' = [trace EXCEPT !.returned = TRUE, !.path = path]
    /\ calls' = Append(calls, [title |-> cur.title, written |-> written,
                               media_title |-> IF written = None THEN None ELSE MediaTitle(cur.media)])
    /\ cur' = None
    /\ IF mode = "batch"
       THEN /\ results' = Record(results, cur.title, path)
            /\ idx' = idx + 1
            /\ pc' = "loop"
       ELSE /\ pc' = "done"
            /\ UNCHANGED <<results, idx>>

\* An exception nothing catches: the run ends.
Crash(name, trace) ==
    /\ last' = [trace EXCEPT !.raised = name]
    /\ pc' = "crashed"
    /\ UNCHANGED <<results, idx, calls, cur>>

\* Lines 124-128: the output folder, then search_media.
DP_Search ==
    /\ pc = "search"
    /\ dirs' = dirs \cup {OUTPUT_FOLDER}
    /\ \E movieResp \in (IF mtype = "tv" THEN {NoResults} ELSE MovieSearches),
          tvResp \in (IF mtype = "movie" THEN {NoResults} ELSE TvSearches),
          choice \in IF cur.interactive THEN {<<>>, <<"2">>, <<"9">>, <<"a">>} ELSE {<<"2">>} :
        LET s == SearchMedia(mtype, cur.interactive, movieResp, tvResp, choice)
            resp(e) == IF e = "search/movie" THEN movieResp ELSE tvResp
            trace == [last EXCEPT
                        !.reqs = s.reqs,
                        !.received = [i \in 1..Len(s.reqs) |-> Seen(s.reqs[i], resp(s.reqs[i]))],
                        !.zero_results = \A i \in 1..Len(s.reqs) : ResultsIn(resp(s.reqs[i])) = <<>>,
                        !.searched = TRUE,
                        !.prompted = s.prompted, !.warned = s.warned]
        IN  IF s.raised # "none" THEN Crash(s.raised, trace) /\ UNCHANGED files
            ELSE IF s.ret = None
            THEN Return(None, None, [trace EXCEPT !.msg = "No encontrado"]) /\ UNCHANGED files
            ELSE /\ cur' = [cur EXCEPT !.media = s.ret]
                 /\ last' = trace
                 /\ pc' = "images"
                 /\ UNCHANGED <<results, idx, calls, files>>
    /\ UNCHANGED <<arg, ret, mode, titles, mtype>>

\* Lines 129-135: get_poster_url for the media found.
DP_Images ==
    /\ pc = "images"
    /\ \E resp \in PipelineImages(cur.media) :
        LET g == GetPosterUrl(cur.media.id, cur.media.media_type, resp)
            trace == [last EXCEPT !.reqs = @ \o g.reqs,
                                  !.received = Append(@, Seen(g.reqs[1], resp))]
        IN  IF g.raised # "none" THEN Crash(g.raised, trace)
            ELSE IF g.ret = None
            THEN Return(None, None, [trace EXCEPT !.msg = "Sin poster"])
            ELSE /\ cur' = [cur EXCEPT !.poster_url = g.ret]
                 /\ last' = trace
                 /\ pc' = "fetch"
                 /\ UNCHANGED <<results, idx, calls>>
    /\ UNCHANGED <<arg, ret, mode, titles, mtype, dirs, files>>

\* Lines 136-142: fetch the picture, write it under the sanitized title, return the path.
DP_Fetch ==
    /\ pc = "fetch"
    /\ \E resp \in FetchResponses(cur.poster_url[1]) :
        LET trace == [last EXCEPT !.reqs = Append(@, "poster"),
                                  !.received = Append(@, Seen("poster", resp))]
            filepath == FilePath(OUTPUT_FOLDER, SafeTitle(MediaTitle(cur.media)))
        IN  IF resp.error THEN Crash("ConnectionError", trace) /\ UNCHANGED files
            ELSE /\ files' = WriteFile(files, filepath, resp.content)
                 /\ Return(<<filepath>>, [filepath |-> filepath, content |-> resp.content],
                           [trace EXCEPT !.msg = "ok"])
    /\ UNCHANGED <<arg, ret, mode, titles, mtype, dirs>>

Next ==
    \/ CallDownloadBatch
    \/ CallDownloadPoster
    \/ BatchNext
    \/ BatchSummary
    \/ DP_Search
    \/ DP_Images
    \/ DP_Fetch

Spec == Init /\ [][Next]_vars

-----------------------------------------------------------------------------
(* Properties of search_media (SpecSearch) *)

\* The combined candidate list the specification describes: up to five movie
\* results followed by up to five tv results.
Combined ==
    LET m == ResultsIn(arg.movieResp)
        t == ResultsIn(arg.tvResp)
        nm == IF Len(m) > MaxPerType THEN MaxPerType ELSE Len(m)
        nt == IF Len(t) > MaxPerType THEN MaxPerType ELSE Len(t)
    IN  [k \in 1..(nm + nt) |->
            IF k <= nm THEN [id |-> m[k].id, media_type |-> "movie"]
            ELSE [id |-> t[k - nm].id, media_type |-> "tv"]]

CombinedPop(k) ==
    LET m == ResultsIn(arg.movieResp)
        t == ResultsIn(arg.tvResp)
        nm == IF Len(m) > MaxPerType THEN MaxPerType ELSE Len(m)
        x == IF k <= nm THEN m[k] ELSE t[k - nm]
    IN  IF "popularity" \in DOMAIN x THEN x.popularity ELSE 0

\* The returned candidate is the k-th of the combined list.
ReturnsCandidate(k) ==
    /\ ret.ret # None
    /\ ret.ret.id = Combined[k].id
    /\ ret.ret.media_type = Combined[k].media_type

AutoReturned == pc = "search_ret" /\ arg.media_type = "auto" /\ ret.raised = "none"

\* C1: in batch mode (interactive=False) an auto search with at least two combined
\* candidates returns the most popular one, the earliest of the combined list among
\* equally popular ones, and reads nothing from the console.
C1_BatchPicksFirstMostPopular ==
    (AutoReturned /\ ~arg.interactive /\ Len(Combined) >= 2) =>
        /\ ~ret.prompted
        /\ \E k \in 1..Len(Combined) :
            /\ ReturnsCandidate(k)
            /\ \A j \in 1..Len(Combined) : CombinedPop(j) <= CombinedPop(k)
            /\ \A j \in 1..(k - 1) : CombinedPop(j) < CombinedPop(k)

\* A batch search that cut the movie response at five, and returned a tv candidate
\* that ties with a later one.
C1_Witness ==
    /\ AutoReturned /\ ~arg.interactive
    /\ Len(ResultsIn(arg.movieResp)) > MaxPerType
    /\ ret.ret # None /\ ret.ret.media_type = "tv"
    /\ \E k \in 1..Len(Combined), j \in 1..Len(Combined) :
        ReturnsCandidate(k) /\ j > k /\ CombinedPop(j) = CombinedPop(k)

\* C8: an auto search with exactly one combined candidate returns it without a
\* console read, whether interactive or not.
C8_SingleCandidateNoPrompt ==
    (AutoReturned /\ Len(Combined) = 1) =>
        ReturnsCandidate(1) /\ ~ret.prompted /\ ~ret.warned

\* An interactive search whose only candidate is a show.
C8_Witness ==
    /\ AutoReturned /\ arg.interactive /\ Len(Combined) = 1
    /\ Combined[1].media_type = "tv" /\ ReturnsCandidate(1)

\* What int() makes of the console lines of Choices, stated line by line; the lines
\* not listed are not numbers.
EmptyLines == { <<>>, <<" ">> }
NumberOf ==
    (<<"1">> :> 1) @@ (<<"2">> :> 2) @@ (<<" ", "2", " ">> :> 2) @@ (<<"+", "2">> :> 2)
    @@ (<<"0">> :> 0) @@ (<<"-", "1">> :> 0 - 1) @@ (<<"9">> :> 9) @@ (<<"1", "2">> :> 12)
IsEmptyLine == arg.choice \in EmptyLines
IsOutOfRange ==
    arg.choice \in DOMAIN NumberOf
    /\ (NumberOf[arg.choice] < 1 \/ NumberOf[arg.choice] > Len(Combined))
IsNonNumeric == arg.choice \notin EmptyLines /\ arg.choice \notin DOMAIN NumberOf

Asked == AutoReturned /\ arg.interactive /\ Len(Combined) >= 2

\* C4 as stated: every empty, out-of-range or non-numeric line yields the first
\* candidate together with a warning.
C4_AsStated ==
    (Asked /\ (IsEmptyLine \/ IsOutOfRange \/ IsNonNumeric)) =>
        ReturnsCandidate(1) /\ ret.warned

\* C4 amended: in interactive mode with at least two candidates the search never
\* fails; an out-of-range or non-numeric line yields the first candidate with a
\* warning, and an empty line yields the first candidate without a warning.
C4_FallbackToFirst ==
    (pc = "search_ret" /\ arg.media_type = "auto" /\ arg.interactive
        /\ ~arg.movieResp.error /\ arg.movieResp.isJson
        /\ ~arg.tvResp.error /\ arg.tvResp.isJson /\ Len(Combined) >= 2) =>
        /\ ret.raised = "none" /\ ret.prompted
        /\ (IsOutOfRange \/ IsNonNumeric) => (ReturnsCandidate(1) /\ ret.warned)
        /\ IsEmptyLine => (ReturnsCandidate(1) /\ ~ret.warned)

\* The line "0" against a list of several candidates: warned, first candidate.
C4_Witness ==
    /\ Asked /\ arg.choice = <<"0">> /\ Len(Combined) > MaxPerType
    /\ ReturnsCandidate(1) /\ ret.warned

-----------------------------------------------------------------------------
(* Properties of get_poster_url (SpecPoster) *)

PostersOf(resp) ==
    IF ~resp.error /\ resp.isJson /\ "posters" \in DOMAIN resp.json THEN resp.json.posters ELSE <<>>

PosterWidth(k) ==
    LET p == PostersOf(arg.resp)[k] IN IF "width" \in DOMAIN p THEN p.width ELSE 0

IsEn(k) == PostersOf(arg.resp)[k].iso_639_1 = "en"

ReturnsPoster(k) ==
    ret.ret = <<"https://image.tmdb.org/t/p/original" \o PostersOf(arg.resp)[k].file_path>>

PosterReturned == pc = "poster_ret" /\ ~arg.resp.error /\ arg.resp.isJson

\* C2: when some poster is tagged "en", get_poster_url returns the URL of the widest
\* "en" poster, the earliest among equally wide ones, and never a poster of another
\* language or an untagged one, however wide.
C2_WidestPreferredLanguage ==
    (PosterReturned /\ \E k \in 1..Len(PostersOf(arg.resp)) : IsEn(k)) =>
        /\ ret.raised = "none"
        /\ \E k \in 1..Len(PostersOf(arg.resp)) :
            /\ IsEn(k) /\ ReturnsPoster(k)
            /\ \A j \in 1..Len(PostersOf(arg.resp)) : IsEn(j) => PosterWidth(j) <= PosterWidth(k)
            /\ \A j \in 1..(k - 1) : IsEn(j) => PosterWidth(j) < PosterWidth(k)

\* Two equally wide "en" posters after a strictly wider untagged one: the first "en"
\* poster is returned.
C2_Witness ==
    /\ PosterReturned /\ Len(PostersOf(arg.resp)) = 3
    /\ PostersOf(arg.resp)[1].iso_639_1 = "null" /\ IsEn(2) /\ IsEn(3)
    /\ PosterWidth(1) > PosterWidth(2) /\ PosterWidth(2) = PosterWidth(3)
    /\ ReturnsPoster(2)

\* C3: when no poster is tagged "en", get_poster_url returns the image base followed
\* by the file path of a poster of maximum width among all posters; when there is no
\* poster it returns None.
C3_GlobalWidestOrNone ==
    PosterReturned =>
        /\ ret.raised = "none"
        /\ PostersOf(arg.resp) = <<>> => ret.ret = None
        /\ (PostersOf(arg.resp) # <<>> /\ \A k \in 1..Len(PostersOf(arg.resp)) : ~IsEn(k)) =>
            \E k \in 1..Len(PostersOf(arg.resp)) :
                /\ ReturnsPoster(k)
                /\ \A j \in 1..Len(PostersOf(arg.resp)) : PosterWidth(j) <= PosterWidth(k)

\* No "en" poster, and the widest poster is not the first of the list.
C3_Witness ==
    /\ PosterReturned /\ Len(PostersOf(arg.resp)) >= 2
    /\ \A k \in 1..Len(PostersOf(arg.resp)) : ~IsEn(k)
    /\ PosterWidth(1) < PosterWidth(2)
    /\ ret.ret # None /\ ~ReturnsPoster(1)

-----------------------------------------------------------------------------
(* Properties of the file name (SpecSanitize) *)

\* C9: the file name of a file name is that file name, the name holds only
\* alphanumeric characters, spaces, hyphens and underscores, in the order of the
\* title, and a title with no such character gives the file ".jpg" of the folder.
C9_SanitizeIdempotent ==
    (pc = "sanitized") =>
        /\ ret.again = ret.safe_title
        /\ \A i \in 1..Len(ret.safe_title) : ret.safe_title[i] \in {"A", "b", "7", " ", "-", "_"}
        /\ Len(ret.safe_title) =
            Cardinality({ i \in 1..Len(arg) : arg[i] \in {"A", "b", "7", " ", "-", "_"} })
        /\ (ret.safe_title = <<>>) => (ret.filepath = <<"posters", "/", ".jpg">>)

\* A title of dropped characters only, sanitized twice.
C9_Witness ==
    /\ pc = "sanitized" /\ Len(arg) >= 2
    /\ \A i \in 1..Len(arg) : arg[i] \in {":", "!", "/", "."}
    /\ ret.safe_title = <<>> /\ ret.again = <<>>

-----------------------------------------------------------------------------
(* Properties of the end-to-end runs (Spec) *)

TitlesOfCalls(cs) == [i \in 1..Len(cs) |-> cs[i].title]
Succeeded == { i \in 1..Len(calls) : calls[i].written # None }
BatchDone == mode = "batch" /\ pc = "done"

\* C5: when download_batch finishes, every title occurrence has been processed, in
\* input order, and is filed in exactly one list: under "ok" exactly when a file was
\* written for it, under "fail" otherwise, each list in input order; the two tallies
\* add up to the number of titles.  A title that is not found or has no poster sends
\* the batch on to the next title.
C5_BatchFilesEveryTitle ==
    /\ BatchDone =>
        /\ TitlesOfCalls(calls) = titles
        /\ results.ok = TitlesOfCalls(SelectSeq(calls, LAMBDA c : c.written # None))
        /\ results.fail = TitlesOfCalls(SelectSeq(calls, LAMBDA c : c.written = None))
        /\ Len(results.ok) + Len(results.fail) = Len(titles)
        /\ \A i \in Succeeded : calls[i].written.filepath \in DOMAIN files
    /\ (mode = "batch" /\ last # None /\ last.returned /\ last.path = None) =>
        pc \in {"loop", "done"} /\ Len(calls) = idx /\ results.fail # <<>>

\* A finished batch of two titles: nothing was written for the first, which is
\* filed under "fail"; the second was downloaded and is filed under "ok".
C5_Witness ==
    /\ BatchDone /\ Len(titles) = 2
    /\ calls[1].written = None /\ calls[2].written # None
    /\ results.fail = <<titles[1]>> /\ results.ok = <<titles[2]>>

AllReceivedOk ==
    \A i \in 1..Len(last.received) : ~last.received[i].error /\ last.received[i].status = 200

\* C6: when the search endpoints answer with zero results, download_poster prints
\* "not found" and returns None, having issued search requests only and left every
\* file as it was; this for "auto" and for both explicit types.
C6_NotFoundTouchesNothing ==
    (last # None /\ last.searched /\ last.zero_results /\ AllReceivedOk) =>
        /\ last.raised = "none"
        /\ last.returned /\ last.path = None /\ last.msg = "No encontrado"
        /\ \A i \in 1..Len(last.reqs) : last.reqs[i] \in {"search/movie", "search/tv"}
        /\ files = last.before

\* An explicit movie search with zero results, in a folder that holds an older file.
C6_Witness ==
    /\ last # None /\ last.searched /\ last.zero_results /\ AllReceivedOk
    /\ mtype = "movie" /\ last.returned /\ last.path = None
    /\ files # <<>> /\ files = last.before

\* C7 as stated: a request that ends in a connection error or a non-success status
\* ends the run with the error; it is never followed by a not-found or no-poster
\* outcome, a tally, or a written file.
C7_AsStated ==
    (last # None /\ \E i \in 1..Len(last.received) :
        last.received[i].error \/ last.received[i].status # 200) =>
        pc = "crashed" /\ last.raised # "none"

FilesWritten == { calls[i].written.filepath : i \in Succeeded }

\* C10 as stated: a finished batch leaves as many distinct poster files as it has
\* titles in its success list.
C10_AsStated == BatchDone => Cardinality(FilesWritten) = Len(results.ok)

\* The file name the specification gives a display title.
NameFor(media_title) ==
    <<"posters", "/">>
    \o SelectSeq(media_title, LAMBDA c : c \in {"A", "b", "7", " ", "-", "_"})
    \o <<".jpg">>

\* C10 amended: processing a title changes no file but the one named after the
\* sanitized display title of the media it resolved to, which it creates or
\* replaces; so a finished batch leaves as many distinct poster files as there are
\* distinct sanitized names among its successful titles, at most the length of the
\* success list, each holding what the last title of that name fetched.
C10_WritesOnlyOwnFile ==
    /\ last # None =>
        /\ \A f \in DOMAIN last.before :
            f \in DOMAIN files /\ (files[f] # last.before[f] => last.path = <<f>>)
        /\ \A f \in DOMAIN files \ DOMAIN last.before : last.path = <<f>>
    /\ \A i \in Succeeded : calls[i].written.filepath = NameFor(calls[i].media_title)
    /\ BatchDone =>
        /\ Cardinality(FilesWritten) = Cardinality({ NameFor(calls[i].media_title) : i \in Succeeded })
        /\ Cardinality(FilesWritten) <= Len(results.ok)
        /\ \A i \in Succeeded :
            (\A j \in Succeeded : j > i => calls[j].written.filepath # calls[i].written.filepath)
                => files[calls[i].written.filepath] = calls[i].written.content

\* Two titles resolved to media whose display titles differ only in a dropped
\* character: one file, two successes, the second picture in it.
C10_Witness ==
    /\ BatchDone /\ Len(results.ok) = 2
    /\ calls[1].media_title # calls[2].media_title
    /\ Cardinality(FilesWritten) = 1
    /\ calls[1].written.content # calls[2].written.content
    /\ files[calls[2].written.filepath] = calls[2].written.content

=============================================================================
